---- MODULE Spec2Model ----
(***************************************************************************)
(* Model of the API client of the Blockwall Knowledge Hub (src/js/api.js): *)
(* the exponential-backoff retry wrapper fetchWithRetry, its delay         *)
(* computation calculateBackoff, and the SSE reader askQuestionStream with *)
(* its module-level cancellation handle currentStreamController.           *)
(*                                                                         *)
(* JavaScript runs one callback at a time: the code between two awaits is  *)
(* one atomic step.  Each action below is the code that runs when a call   *)
(* is made or when one awaited promise settles, up to the next await.      *)
(* The network, the random source and the caller's callbacks are the       *)
(* environment: their outcomes are chosen with \E.                         *)
(***************************************************************************)
EXTENDS Integers, Sequences, FiniteSets, TLC

(* ------------------------------------------------------------------ *)
(* RETRY_CONFIG (src/js/config.js)                                     *)
(* ------------------------------------------------------------------ *)
maxAttempts == 5
initialDelay == 2000
maxDelay == 30000
backoffMultiplier == 2
\* jitterFactor is 0.3: kept as tenths so that the arithmetic stays exact
jitterFactorTenths == 3
retryableStatuses == {408, 429, 500, 502, 503, 504}

\* number of entries of the retryMessages list of fetchWithRetry
retryMessagesLength == 5

(* ------------------------------------------------------------------ *)
(* Bounds of the model                                                 *)
(* ------------------------------------------------------------------ *)
\* Math.random() is drawn as r / RandomDen with r in 0 .. RandomDen-1
RandomDen == 20
\* calls of the exported functions that the environment may make
MaxCalls == 2
\* transient faults the network may inject while streams are interleaved
MaxFaults == 1
\* records of one response body
MaxRecords == 2
\* largest attempt number for which the retry message is evaluated directly
MaxAttemptArg == 6
\* calls of formatDate in one run
MaxFormats == 3
\* switchTab calls in one run
MaxSwitches == 4
\* showEntityDetail and showCompanyDetail calls in one run
MaxRequests == 3

Calls == 1 .. MaxCalls

\* statuses the server answers with: success, a non-retryable client error,
\* and a retryable server error
EnvStatuses == {200, 404, 503}

Min(a, b) == IF a <= b THEN a ELSE b

RECURSIVE Pow(_, _)
Pow(b, e) == IF e = 0 THEN 1 ELSE b * Pow(b, e - 1)

(* ------------------------------------------------------------------ *)
(* calculateBackoff                                                    *)
(* ------------------------------------------------------------------ *)
\* const baseDelay = initialDelay * Math.pow(backoffMultiplier, attempt - 1)
baseDelay(attempt) == initialDelay * Pow(backoffMultiplier, attempt - 1)

\* a variant that forgets the cap
uncappedDelay(attempt) == baseDelay(attempt)

\* const cappedDelay = Math.min(baseDelay, maxDelay)
cappedDelay(attempt) == Min(baseDelay(attempt), maxDelay)

\* jitterRange = jitterFactor * cappedDelay
\* jitter = (Math.random() * 2 - 1) * jitterRange
\* return Math.floor(cappedDelay + jitter)
\* with Math.random() = r / RandomDen; \div rounds down, as Math.floor does
calculateBackoff(attempt, r) ==
  ((10 * RandomDen * cappedDelay(attempt))
     + ((2 * r - RandomDen) * jitterFactorTenths * cappedDelay(attempt)))
  \div (10 * RandomDen)

\* a variant that does not cap the index
UncappedIndex(attempt) == attempt - 1

\* retryMessages[Math.min(attempt - 1, retryMessages.length - 1)]: the index
MessageIndex(attempt) == Min(attempt - 1, retryMessagesLength - 1)

(* ------------------------------------------------------------------ *)
(* State                                                               *)
(* ------------------------------------------------------------------ *)
VARIABLES
  env,          \* what the environment may do in this run (fixed by Init)
  faults,       \* transient faults the network may still inject
  kind,         \* per call: "none", "fetch" (fetchWithRetry), "ask" (askQuestionStream)
  hasOnRetry,   \* per call: whether an onRetry callback was supplied
  throwsAt,     \* per call: the invocations of onEvent on which the callback throws
  pc,           \* per call: the await the call is suspended at, or its terminal state
  attempt,      \* per call: the loop variable of fetchWithRetry
  log,          \* per call: requests, their outcomes, onRetry calls and sleeps, in order
  result,       \* per call: what fetchWithRetry returned or threw
  currentStreamController,  \* 0 is null; otherwise the call that created the controller
  aborted,      \* controllers on which abort() has been called
  body,         \* per call: the text of the response body of the streaming POST
  pos,          \* per call: how much of the body the reader has been handed
  buffer,       \* per call: the line buffer
  events,       \* per call: the arguments of the onEvent calls, in order
  errors,       \* per call: the errors passed to onError, in order
  late,         \* per call: onEvent calls made after a later call had started
  midPayload,   \* per call: a chunk has ended inside the payload of a data line
  postOutcome,  \* per call: what the streaming POST settled with
  exitHandle,   \* per call: the handle as the call left it (-1 until it returns)
  bkAttempt,    \* argument of a direct calculateBackoff evaluation
  bkDraw,       \* its random draw
  bkDelay,      \* its result (-1 before the evaluation)
  bkMessage,    \* the index of the retry message for bkAttempt (-1 before the evaluation)
  fdEnv,        \* the runtime of formatDate: its time zone and its date parser
  fdLog,        \* the calls of formatDate: argument and result, in order
  isProcessing, \* chat form: a question is being processed
  inputValue,   \* chat form: the text in the question input
  inputDisabled,   \* chat form: the question input is disabled
  buttonDisabled,  \* chat form: the submit button is disabled
  messages,     \* chat form: the message bubbles added to the chat
  finished,     \* per call: how processQuestion ended ("none" until its finally block)
  activeTab,    \* tabs: the tab whose panel is shown
  loadedTabs,   \* tabs: the set of the same name
  loaderRuns,   \* tabs: per tab, the calls of its loader
  loading,      \* tabs: per tab, the loader calls that have not finished
  loadsDone,    \* tabs: per tab, the outcomes of the loads that have finished
  switches,     \* tabs: the switchTab calls made
  modalTitle,   \* modal: whose name the title shows
  modalContent, \* modal: what the content shows, and for whom
  requests      \* modal: the show...Detail calls, in order, and whether answered

vars == <<env, faults, kind, hasOnRetry, throwsAt, pc, attempt, log, result,
          currentStreamController, aborted, body, pos, buffer, events, errors, late, midPayload,
          postOutcome, exitHandle,
          bkAttempt, bkDraw, bkDelay, bkMessage, fdEnv, fdLog,
          isProcessing, inputValue, inputDisabled, buttonDisabled, messages, finished,
          activeTab, loadedTabs, loaderRuns, loading, loadsDone, switches,
          modalTitle, modalContent, requests>>

retryVars == <<attempt, log, result>>
streamVars == <<body, pos, buffer, events, errors, late, midPayload, postOutcome, exitHandle>>
\* the variables of the direct evaluations of pure functions
bkVars == <<bkAttempt, bkDraw, bkDelay, bkMessage, fdEnv, fdLog>>
\* the variables of the page: the chat form, the tabs and the detail modal
chatVars == <<isProcessing, inputValue, inputDisabled, buttonDisabled, messages, finished>>
tabVars == <<activeTab, loadedTabs, loaderRuns, loading, loadsDone, switches>>
modalVars == <<modalTitle, modalContent, requests>>
pageVars == <<chatVars, tabVars, modalVars>>

NoResult == [t |-> "pending", name |-> "", src |-> "", status |-> 0, attempts |-> 0]

(* ------------------------------------------------------------------ *)
(* Values                                                              *)
(* ------------------------------------------------------------------ *)
\* what an awaited fetch() settles with: a response, or a thrown error.
\* name is the error's name: "AbortError" is the 45 s timeout abort,
\* "TypeError" a connection-level failure, "Error" any other exception.
Response(s) == [t |-> "response", name |-> "", status |-> s]
Failure(n) == [t |-> "failure", name |-> n, status |-> 0]
\* no runtime of formatDate is looked at
NoRuntime == [offset |-> 0, lenient |-> FALSE]

\* the request has not settled
NoOutcome == [t |-> "none", name |-> "", status |-> 0]
FetchOutcomes ==
  {Response(s) : s \in EnvStatuses} \cup {Failure(n) : n \in {"AbortError", "TypeError", "Error"}}

\* an outcome that makes fetchWithRetry go round its loop again
IsTransient(o) ==
  \/ o.t = "response" /\ o.status \in retryableStatuses
  \/ o.t = "failure" /\ o.name \in {"AbortError", "TypeError"}

\* what a call of the onRetry callback does: return, or throw an error of that name
CallbackOutcomes == {"ok", "TypeError", "AbortError", "Error"}

\* entries of a call's log
RequestEntry(n) == [op |-> "request", n |-> n, d |-> 0, m |-> 0, status |-> 0, name |-> ""]
OutcomeEntry(n, o) == [op |-> o.t, n |-> n, d |-> 0, m |-> 0, status |-> o.status, name |-> o.name]
OnRetryEntry(n, d) ==
  [op |-> "onRetry", n |-> n, d |-> d, m |-> MessageIndex(n), status |-> 0, name |-> ""]
SleepEntry(n, d) == [op |-> "sleep", n |-> n, d |-> d, m |-> 0, status |-> 0, name |-> ""]
PostEntry == [op |-> "post", n |-> 0, d |-> 0, m |-> 0, status |-> 0, name |-> ""]

\* what fetchWithRetry returns or throws.  status and attempts are the numbers
\* its message names (0 when the message names none).
Returned(s, n) ==
  [t |-> "response", name |-> "", src |-> "", status |-> s, attempts |-> n]
\* new Error(`Server returned ${response.status} after ${maxAttempts} attempts`)
StatusError(s) ==
  [t |-> "error", name |-> "Error", src |-> "status", status |-> s, attempts |-> maxAttempts]
\* new Error(`Network error after ${maxAttempts} attempts: ${error.message}`)
NetworkError ==
  [t |-> "error", name |-> "Error", src |-> "network", status |-> 0, attempts |-> maxAttempts]
\* an exception of fetch() that is passed on as it is
FetchError(n) == [t |-> "error", name |-> n, src |-> "fetch", status |-> 0, attempts |-> 0]
\* an exception of the onRetry callback
CallbackError(n) ==
  [t |-> "error", name |-> n, src |-> "callback", status |-> 0, attempts |-> 0]

(* ------------------------------------------------------------------ *)
(* fetchWithRetry: one turn of the loop, from a settled fetch() to the *)
(* next await, return or throw.  A step is [next, entries, res]: next  *)
(* is "sleep" (await sleep(delay)), "return" or "throw"; entries are   *)
(* the onRetry calls and the sleep it starts; res is what is returned  *)
(* or thrown.                                                          *)
(* ------------------------------------------------------------------ *)
Step(next, entries, res) == [next |-> next, entries |-> entries, res |-> res]

\* a variant of the last-attempt test that is off by one
IsPastLastAttempt(n) == n > maxAttempts

\* attempt === RETRY_CONFIG.maxAttempts
IsLastAttempt(n) == n = maxAttempts

\* a variant that retries every error status
IsErrorStatus(s) == s >= 400

\* RETRY_CONFIG.retryableStatuses.includes(response.status)
IsRetryableStatus(s) == s \in retryableStatuses

\* error.name === 'AbortError' || error instanceof TypeError
IsRetryableError(e) == e.name = "AbortError" \/ e.name = "TypeError"

\* the catch block.  supplied: whether onRetry was passed; r: the random draw;
\* cb: what the onRetry call does.  An exception of onRetry leaves the function:
\* nothing encloses the catch block.
CatchBlock(supplied, n, e, r, cb) ==
  IF IsRetryableError(e)
  THEN IF IsLastAttempt(n)
       THEN Step("throw", <<>>, NetworkError)
       ELSE LET d == calculateBackoff(n, r) IN
            IF supplied /\ cb # "ok"
            THEN Step("throw", <<OnRetryEntry(n, d)>>, CallbackError(cb))
            ELSE Step("sleep",
                      (IF supplied THEN <<OnRetryEntry(n, d)>> ELSE <<>>) \o <<SleepEntry(n, d)>>,
                      NoResult)
  ELSE Step("throw", <<>>, e)

\* the try block.  Whatever is thrown inside it, the status error and an
\* exception of onRetry included, is handled by the catch block (with its own
\* draw r2 and onRetry outcome cb2).
TryBlock(supplied, n, o, r1, cb1, r2, cb2) ==
  IF o.t = "response"
  THEN IF IsRetryableStatus(o.status)
       THEN IF IsLastAttempt(n)
            THEN CatchBlock(supplied, n, StatusError(o.status), r2, cb2)
            ELSE LET d == calculateBackoff(n, r1) IN
                 IF supplied /\ cb1 # "ok"
                 THEN LET c == CatchBlock(supplied, n, CallbackError(cb1), r2, cb2) IN
                      Step(c.next, <<OnRetryEntry(n, d)>> \o c.entries, c.res)
                 ELSE Step("sleep",
                           (IF supplied THEN <<OnRetryEntry(n, d)>> ELSE <<>>)
                              \o <<SleepEntry(n, d)>>,
                           NoResult)
       ELSE Step("return", <<>>, Returned(o.status, n))
  ELSE CatchBlock(supplied, n, FetchError(o.name), r1, cb1)

(* ------------------------------------------------------------------ *)
(* The SSE reader's text handling.  Text is a sequence of characters.  *)
(* ------------------------------------------------------------------ *)
NL == "\n"

\* 'data: '
DataPrefix == <<"d", "a", "t", "a", ":", " ">>

\* buffer.split('\n'): the pieces between the newlines, the last piece being
\* what follows the last newline (empty when the text ends with one)
RECURSIVE SplitFrom(_, _, _, _)
SplitFrom(s, i, cur, acc) ==
  IF i > Len(s) THEN Append(acc, cur)
  ELSE IF s[i] = NL THEN SplitFrom(s, i + 1, <<>>, Append(acc, cur))
  ELSE SplitFrom(s, i + 1, Append(cur, s[i]), acc)

split(s) == SplitFrom(s, 1, <<>>, <<>>)

\* a variant that forgets the incomplete line
Forgotten(lines) == <<>>

\* lines.pop(): the element removed, and the array that is left
Popped(lines) == lines[Len(lines)]
\* a variant that leaves the last piece among the lines to process
WithoutPop(lines) == lines

AfterPop(lines) == SubSeq(lines, 1, Len(lines) - 1)

\* a variant that compares the lengths only
LongEnough(line, p) == Len(line) >= Len(p)

\* line.startsWith(p)
startsWith(line, p) == Len(line) >= Len(p) /\ SubSeq(line, 1, Len(p)) = p

\* line.slice(6)
slice6(line) == SubSeq(line, 7, Len(line))

IsSpace(ch) == ch = " "

\* data.trim()
RECURSIVE trim(_)
trim(s) ==
  IF s = <<>> THEN s
  ELSE IF IsSpace(s[1]) THEN trim(Tail(s))
  ELSE IF IsSpace(s[Len(s)]) THEN trim(SubSeq(s, 1, Len(s) - 1))
  ELSE s

\* JSON.parse over a small language of documents: the objects {T}, {D}, {S},
\* where T, D and S stand for the members of a token, a done and a status
\* event ("type":"token","data":..., and so on).  White space is allowed
\* around the value and inside the braces, as in JSON; anything else is a
\* SyntaxError.
Members == {"T", "D", "S"}
IsObject(v) ==
  /\ Len(v) >= 3
  /\ v[1] = "{"
  /\ v[Len(v)] = "}"
  /\ LET inner == trim(SubSeq(v, 2, Len(v) - 1)) IN Len(inner) = 1 /\ inner[1] \in Members

JSONparses(data) == IsObject(trim(data))

\* event.type of the parsed value
TypeOf(data) ==
  LET v == trim(data)
      m == trim(SubSeq(v, 2, Len(v) - 1))[1]
  IN CASE m = "T" -> "token"
       [] m = "D" -> "done"
       [] OTHER -> "status"

\* the line yields a JSON.parse call: it starts with 'data: ' and what follows
\* is not blank
IsDataLine(line) == startsWith(line, DataPrefix) /\ trim(slice6(line)) # <<>>

\* the for loop over the complete lines.  evs: the onEvent calls made so far by
\* this call; thr: the invocations on which the caller's callback throws (the
\* exception is caught with the parse errors, and the done test is skipped).
\* Result: the onEvent calls, and whether the loop returned on a done event.
RECURSIVE ProcessLines(_, _, _, _)

\* a variant in which a parse error ends the reading
ParseErrorStops(lines, i, evs, thr) == [events |-> evs, stop |-> TRUE]

\* catch (parseError): a warning is logged and the for loop goes on with the
\* next line
AfterParseError(lines, i, evs, thr) == ProcessLines(lines, i + 1, evs, thr)

\* a variant in which an exception of onEvent ends the reading
CallbackErrorStops(lines, i, evs, thr) == [events |-> evs, stop |-> TRUE]

\* onEvent(event) threw: the exception is caught by catch (parseError), the
\* done test is skipped and the for loop goes on with the next line.  evs
\* includes the call that threw.
AfterCallbackError(lines, i, evs, thr) == ProcessLines(lines, i + 1, evs, thr)

ProcessLines(lines, i, evs, thr) ==
  IF i > Len(lines) THEN [events |-> evs, stop |-> FALSE]
  ELSE IF ~IsDataLine(lines[i]) THEN ProcessLines(lines, i + 1, evs, thr)
  ELSE IF ~JSONparses(slice6(lines[i])) THEN AfterParseError(lines, i, evs, thr)
  ELSE LET ty == TypeOf(slice6(lines[i]))
           evs2 == Append(evs, ty)
       IN IF Len(evs2) \in thr THEN AfterCallbackError(lines, i, evs2, thr)
          ELSE IF ty = "done" THEN [events |-> evs2, stop |-> TRUE]
          ELSE ProcessLines(lines, i + 1, evs2, thr)

\* one turn of the while loop on a chunk: buffer += chunk; split; pop; for ...
OnLines(lines, evs, thr) ==
  LET p == ProcessLines(AfterPop(lines), 1, evs, thr)
  IN [buffer |-> Popped(lines), events |-> p.events, stop |-> p.stop]

OnChunk(buf, chunk, evs, thr) == OnLines(split(buf \o chunk), evs, thr)

(* ------------------------------------------------------------------ *)
(* Response bodies the server may send                                 *)
(* ------------------------------------------------------------------ *)
TokenLine == DataPrefix \o <<"{", "T", "}">>
DoneLine == DataPrefix \o <<"{", "D", "}">>
\* a data line whose payload is not JSON
BadLine == DataPrefix \o <<"{", "T">>
BlankLine == <<>>
\* 'data:' without the space
NoSpaceLine == <<"d", "a", "t", "a", ":", "{", "T", "}">>
\* a payload of white space only
SpaceLine == DataPrefix \o <<" ">>

\* an 'event:' field, whose text from the 7th character on is a JSON document
EventLine == <<"e", "v", "e", "n", "t", ":", "{", "T", "}">>
\* a comment line
CommentLine == <<":">>

WireLines ==
  {TokenLine, DoneLine, BadLine, BlankLine, NoSpaceLine, SpaceLine, EventLine, CommentLine}

\* the texts of at most n newline-terminated lines
RECURSIVE Texts(_)
Texts(n) ==
  IF n = 0 THEN {<<>>}
  ELSE LET shorter == Texts(n - 1) IN
       shorter \cup {t \o l \o <<NL>> : t \in shorter, l \in WireLines}

\* every body: complete lines, possibly followed by a last line that the
\* server did not terminate
AllBodies ==
  Texts(MaxRecords) \cup {t \o l : t \in Texts(MaxRecords - 1), l \in {TokenLine, DoneLine}}

\* two ordinary answers: tokens closed by done, and a body that ends without done
PlainBodies == {TokenLine \o <<NL>> \o DoneLine \o <<NL>>, TokenLine \o <<NL>>}

\* the bodies of a run: "all" or "plain"
BodiesOf(which) == IF which = "all" THEN AllBodies ELSE PlainBodies

(* ------------------------------------------------------------------ *)
(* Initial states.  No call has been made; env says what the caller    *)
(* and the network may do in the run.                                  *)
(* ------------------------------------------------------------------ *)
\* asks, fetches: the calls of askQuestionStream and of fetchWithRetry the
\* caller may make; net: what a fetch() may settle with; onRetry: whether the
\* caller passes an onRetry callback; callbacks: what an onRetry call may do;
\* draws: the values of Math.random(); bodies: which response bodies;
\* wholeLines: whether the transport cuts chunks at line ends only;
\* throwSets: the invocations on which an onEvent callback may throw
Caller(asks, fetches, onRetry, callbacks, throwSets) ==
  [asks |-> asks, fetches |-> fetches, onRetry |-> onRetry, callbacks |-> callbacks,
   throwSets |-> throwSets]
Network(net, draws, bodies, wholeLines) ==
  [net |-> net, draws |-> draws, bodies |-> bodies, wholeLines |-> wholeLines]

\* the page after its scripts have loaded: the chat form is idle and empty,
\* the chat tab is shown, no tab has been loaded, the modal has shown nothing
Tabs == {"chat", "trends", "portfolio"}
LazyTabs == {"trends", "portfolio"}
NoTitle == [name |-> "", badge |-> FALSE]
NoContent == [fn |-> "", name |-> "", shows |-> "nothing"]

InitPage ==
  /\ isProcessing = FALSE
  /\ inputValue = <<>>
  /\ inputDisabled = FALSE
  /\ buttonDisabled = FALSE
  /\ messages = 0
  /\ finished = [c \in Calls |-> "none"]
  /\ activeTab = "chat"
  /\ loadedTabs = {}
  /\ loaderRuns = [t \in LazyTabs |-> 0]
  /\ loading = [t \in LazyTabs |-> 0]
  /\ loadsDone = [t \in LazyTabs |-> <<>>]
  /\ switches = 0
  /\ modalTitle = NoTitle
  /\ modalContent = NoContent
  /\ requests = <<>>

InitCalls(who, nw, f) ==
  /\ env = [caller |-> who, network |-> nw]
  /\ fdLog = <<>>
  /\ faults = f
  /\ kind = [c \in Calls |-> "none"]
  /\ hasOnRetry = [c \in Calls |-> FALSE]
  /\ throwsAt = [c \in Calls |-> {}]
  /\ pc = [c \in Calls |-> "idle"]
  /\ attempt = [c \in Calls |-> 0]
  /\ log = [c \in Calls |-> <<>>]
  /\ result = [c \in Calls |-> NoResult]
  /\ currentStreamController = 0
  /\ aborted = {}
  /\ body = [c \in Calls |-> <<>>]
  /\ pos = [c \in Calls |-> 0]
  /\ buffer = [c \in Calls |-> <<>>]
  /\ events = [c \in Calls |-> <<>>]
  /\ errors = [c \in Calls |-> <<>>]
  /\ late = [c \in Calls |-> 0]
  /\ midPayload = [c \in Calls |-> FALSE]
  /\ postOutcome = [c \in Calls |-> NoOutcome]
  /\ exitHandle = [c \in Calls |-> -1]
  /\ InitPage

InitWith(who, nw, f) ==
  /\ InitCalls(who, nw, f)
  /\ bkAttempt = 0
  /\ bkDraw = 0
  /\ bkDelay = -1
  /\ bkMessage = -1
  /\ fdEnv = NoRuntime

\* the calls made so far; calls are numbered in the order they are made
IsNext(c) == kind[c] = "none" /\ \A b \in Calls : b < c => kind[b] # "none"
NumberOf(k) == Cardinality({c \in Calls : kind[c] = k})

\* a later askQuestionStream call has been made
Superseded(c) == \E b \in Calls : b > c /\ kind[b] = "ask"

(* ------------------------------------------------------------------ *)
(* fetchWithRetry                                                      *)
(* ------------------------------------------------------------------ *)
\* entering the loop: attempt = 1 and the first fetch() is issued
EnterLoop(c) ==
  /\ attempt' = [attempt EXCEPT ![c] = 1]
  /\ log' = [log EXCEPT ![c] = Append(@, RequestEntry(1))]
  /\ result' = result
  /\ pc' = [pc EXCEPT ![c] = "fetch"]

\* a direct call of fetchWithRetry(url, options, onRetry)
CallFetch(c) ==
  /\ IsNext(c)
  /\ NumberOf("fetch") < env.caller.fetches
  /\ \E h \in env.caller.onRetry : hasOnRetry' = [hasOnRetry EXCEPT ![c] = h]
  /\ kind' = [kind EXCEPT ![c] = "fetch"]
  /\ EnterLoop(c)
  /\ UNCHANGED <<env, faults, throwsAt, currentStreamController, aborted>>
  /\ UNCHANGED streamVars
  /\ UNCHANGED bkVars
  /\ UNCHANGED pageVars

\* a variant that does not advance the loop variable
SameAttempt(n) == n

\* a variant whose loop variable is shared: it advances by one for every call
\* that is in the loop
SharedAttempt(n) == n + Cardinality({c \in Calls : pc[c] \in {"fetch", "sleep"}})

\* attempt++
NextAttempt(n) == n + 1

\* attempt <= RETRY_CONFIG.maxAttempts
LoopContinues(n) == n <= maxAttempts

\* new Error('Max retry attempts exceeded'), thrown after the loop
MaxAttemptsError ==
  [t |-> "error", name |-> "Error", src |-> "loop", status |-> 0, attempts |-> 0]

(* ------------------------------------------------------------------ *)
(* askQuestionStream                                                   *)
(* ------------------------------------------------------------------ *)
\* a variant that aborts every call that has not returned
AbortsInFlight == {c \in Calls : pc[c] \in {"fetch", "sleep", "post", "read"}}

\* a variant that clears the handle without aborting what it holds
AbortsNothing == {}

\* the controllers a new call aborts: the one the handle holds, if any
AbortTargets ==
  IF currentStreamController # 0 THEN {currentStreamController} ELSE {}

\* the call: cancel the previous stream if the handle holds one, clear the
\* handle, and enter fetchWithRetry for the health probe
askQuestionStream(c) ==
  /\ IsNext(c)
  /\ NumberOf("ask") < env.caller.asks
  /\ \E h \in env.caller.onRetry : hasOnRetry' = [hasOnRetry EXCEPT ![c] = h]
  /\ \E th \in env.caller.throwSets : throwsAt' = [throwsAt EXCEPT ![c] = th]
  /\ kind' = [kind EXCEPT ![c] = "ask"]
  /\ aborted' = aborted \cup AbortTargets
  /\ currentStreamController' = 0
  /\ EnterLoop(c)
  /\ UNCHANGED <<env, faults>>
  /\ UNCHANGED streamVars
  /\ UNCHANGED bkVars

\* a call of askQuestionStream by a caller other than the chat form
Ask(c) ==
  /\ askQuestionStream(c)
  /\ UNCHANGED pageVars

\* a variant whose finally block leaves the handle as it is
FinallyKeeps(c) ==
  /\ UNCHANGED currentStreamController
  /\ exitHandle' = [exitHandle EXCEPT ![c] = currentStreamController]

\* the finally block: the handle is cleared whatever it holds
Finally(c) ==
  /\ currentStreamController' = 0
  /\ exitHandle' = [exitHandle EXCEPT ![c] = 0]

\* an onError(e) call, with the number of onEvent calls made before it
OnErrorCall(c, e) == [error |-> e, seen |-> Len(events[c])]

\* the call leaves askQuestionStream in the terminal state how, after the
\* onError calls in reported
Leave(c, how, reported) ==
  /\ pc' = [pc EXCEPT ![c] = how]
  /\ errors' = [errors EXCEPT ![c] = @ \o reported]
  /\ Finally(c)

\* a variant that takes no error for a cancellation
NeverAbortError(e) == FALSE

\* a variant that takes every error for a cancellation
AlwaysAbortError(e) == TRUE

\* error.name === 'AbortError'
IsAbortError(e) == e.name = "AbortError"

\* a variant that reports an error twice
CatchTwice(c, e) ==
  IF IsAbortError(e) THEN Leave(c, "cancelled", <<>>)
  ELSE Leave(c, "errored", <<OnErrorCall(c, e), OnErrorCall(c, e)>>)

\* the catch and finally blocks: an AbortError is logged, any other error goes
\* to onError
Catch(c, e) ==
  IF IsAbortError(e) THEN Leave(c, "cancelled", <<>>)
  ELSE Leave(c, "errored", <<OnErrorCall(c, e)>>)

\* a variant that reports the end of a body without done as an error
EndOfStreamThrows(c) == Catch(c, FetchError("Error"))

\* if (done) break: the while loop is left and the try block ends
EndOfStream(c) == Leave(c, "ended", <<>>)

\* return after a done event
DoneReturn(c) == Leave(c, "done", <<>>)

\* a variant that takes every response for a success
AlwaysOk(status) == TRUE

\* response.ok
ResponseOk(status) == status >= 200 /\ status <= 299

\* new Error(`Stream failed: ${response.status} ...`)
StreamError(status) == [FetchError("Error") EXCEPT !.src = "stream", !.status = status]

\* onRetry is called in the try block when the attempt is to be retried, and
\* called again by the catch block when that call threw a retryable error.
\* Only then are the second draw and the second outcome looked at.
Retries(c, o) == hasOnRetry[c] /\ IsTransient(o) /\ ~IsLastAttempt(attempt[c])
CalledTwice(c, o, cb1) ==
  /\ Retries(c, o)
  /\ o.t = "response"
  /\ IsRetryableError(CallbackError(cb1))
CallbacksAt(c, o) == IF Retries(c, o) THEN env.caller.callbacks ELSE {"ok"}
DrawsAfter(c, o, r1, cb1) == IF CalledTwice(c, o, cb1) THEN env.network.draws ELSE {r1}
CallbacksAfter(c, o, cb1) == IF CalledTwice(c, o, cb1) THEN env.caller.callbacks ELSE {"ok"}

\* await sleep(delay) resolves: continue; attempt++; when the loop condition
\* holds the next fetch() is issued, otherwise the statement after the loop
\* throws
SleepDone(c) ==
  /\ pc[c] = "sleep"
  /\ attempt' = [attempt EXCEPT ![c] = NextAttempt(@)]
  /\ IF LoopContinues(NextAttempt(attempt[c]))
     THEN /\ log' = [log EXCEPT ![c] = Append(@, RequestEntry(NextAttempt(attempt[c])))]
          /\ pc' = [pc EXCEPT ![c] = "fetch"]
          /\ UNCHANGED <<result, currentStreamController, errors, exitHandle>>
     ELSE /\ result' = [result EXCEPT ![c] = MaxAttemptsError]
          /\ UNCHANGED log
          /\ IF kind[c] = "fetch"
             THEN /\ pc' = [pc EXCEPT ![c] = "rejected"]
                  /\ UNCHANGED <<currentStreamController, errors, exitHandle>>
             ELSE Catch(c, MaxAttemptsError)
  /\ UNCHANGED <<env, faults, kind, hasOnRetry, throwsAt, aborted>>
  /\ UNCHANGED <<body, pos, buffer, events, late, midPayload, postOutcome>>
  /\ UNCHANGED bkVars
  /\ UNCHANGED pageVars

\* the awaited fetch() of the loop settles with outcome o; the loop body runs
\* to its next await, and when fetchWithRetry returns to askQuestionStream the
\* new controller is stored and the streaming POST is issued with its signal
\* a variant that tests the probe's response as checkHealth does
ProbeChecked(st) ==
  IF st.next = "return" /\ ~ResponseOk(st.res.status)
  THEN Step("throw", st.entries, FetchError("Error"))
  ELSE st

\* await fetchWithRetry(`${API_BASE}/health`, {}, onRetry): the response that
\* is returned is not assigned and not inspected, an exception is passed on
ProbeResult(st) == st

FetchSettle(c) ==
  /\ pc[c] = "fetch"
  /\ \E o \in env.network.net, r1 \in env.network.draws :
     \E cb1 \in CallbacksAt(c, o) :
     \E r2 \in DrawsAfter(c, o, r1, cb1), cb2 \in CallbacksAfter(c, o, cb1) :
       LET st == TryBlock(hasOnRetry[c], attempt[c], o, r1, cb1, r2, cb2)
           lg == (log[c] \o <<OutcomeEntry(attempt[c], o)>>) \o st.entries
       IN /\ IsTransient(o) => faults > 0
          /\ faults' = IF IsTransient(o) THEN faults - 1 ELSE faults
          /\ result' = [result EXCEPT ![c] = st.res]
          /\ CASE st.next = "sleep" ->
                    /\ log' = [log EXCEPT ![c] = lg]
                    /\ pc' = [pc EXCEPT ![c] = "sleep"]
                    /\ UNCHANGED <<currentStreamController, errors, exitHandle>>
               [] st.next # "sleep" /\ kind[c] = "fetch" ->
                    /\ log' = [log EXCEPT ![c] = lg]
                    /\ pc' = [pc EXCEPT ![c] =
                                IF st.next = "return" THEN "resolved" ELSE "rejected"]
                    /\ UNCHANGED <<currentStreamController, errors, exitHandle>>
               [] ProbeResult(st).next = "return" /\ kind[c] = "ask" ->
                    /\ log' = [log EXCEPT ![c] = Append(lg, PostEntry)]
                    /\ currentStreamController' = c
                    /\ pc' = [pc EXCEPT ![c] = "post"]
                    /\ UNCHANGED <<errors, exitHandle>>
               [] ProbeResult(st).next = "throw" /\ kind[c] = "ask" ->
                    /\ log' = [log EXCEPT ![c] = lg]
                    /\ Catch(c, ProbeResult(st).res)
  /\ UNCHANGED <<env, kind, hasOnRetry, throwsAt, attempt, aborted>>
  /\ UNCHANGED <<body, pos, buffer, events, late, midPayload, postOutcome>>
  /\ UNCHANGED bkVars
  /\ UNCHANGED pageVars

\* the streaming POST settles.  An aborted signal rejects it with an
\* AbortError; otherwise the server answers or the connection fails.
PostSettle(c) ==
  /\ pc[c] = "post"
  /\ IF c \in aborted
     THEN /\ postOutcome' = [postOutcome EXCEPT ![c] = Failure("AbortError")]
          /\ Catch(c, FetchError("AbortError"))
          /\ UNCHANGED <<body>>
     ELSE \E o \in env.network.net \ {Failure("AbortError")} :
            /\ postOutcome' = [postOutcome EXCEPT ![c] = o]
            /\ IF o.t = "response" /\ ResponseOk(o.status)
               THEN /\ \E b \in BodiesOf(env.network.bodies) :
                         body' = [body EXCEPT ![c] = b]
                    /\ pc' = [pc EXCEPT ![c] = "read"]
                    /\ UNCHANGED <<currentStreamController, errors, exitHandle>>
               ELSE /\ Catch(c, IF o.t = "response" THEN StreamError(o.status)
                                ELSE FetchError(o.name))
                    /\ UNCHANGED <<body>>
  /\ UNCHANGED <<env, faults, kind, hasOnRetry, throwsAt, aborted>>
  /\ UNCHANGED <<pos, buffer, events, late, midPayload>>
  /\ UNCHANGED retryVars
  /\ UNCHANGED bkVars
  /\ UNCHANGED pageVars

\* the lengths of the next chunk the transport may hand over
ChunkLengths(c) ==
  LET left == Len(body[c]) - pos[c] IN
  IF env.network.wholeLines
  THEN {n \in 1 .. left : body[c][pos[c] + n] = NL \/ n = left}
  ELSE 1 .. left

\* await reader.read() settles: with an AbortError when the signal was aborted,
\* with done when the body is exhausted, with the next chunk, or with a
\* transport error when the connection drops
ReadSettle(c) ==
  /\ pc[c] = "read"
  /\ IF c \in aborted
     THEN /\ Catch(c, FetchError("AbortError"))
          /\ UNCHANGED <<pos, buffer, events, late, midPayload, faults>>
     ELSE \E w \in {"data", "drop"} :
            IF w = "drop"
            THEN /\ faults > 0
                 /\ faults' = faults - 1
                 /\ Catch(c, FetchError("TypeError"))
                 /\ UNCHANGED <<pos, buffer, events, late, midPayload>>
            ELSE IF pos[c] = Len(body[c])
            THEN /\ EndOfStream(c)
                 /\ UNCHANGED <<pos, buffer, events, late, midPayload, faults>>
            ELSE \E n \in ChunkLengths(c) :
                   \E p \in {OnChunk(buffer[c], SubSeq(body[c], pos[c] + 1, pos[c] + n),
                                      events[c], throwsAt[c])} :
                      /\ pos' = [pos EXCEPT ![c] = @ + n]
                      /\ buffer' = [buffer EXCEPT ![c] = p.buffer]
                      /\ events' = [events EXCEPT ![c] = p.events]
                      /\ late' = [late EXCEPT ![c] =
                                    IF Superseded(c)
                                    THEN @ + (Len(p.events) - Len(events[c])) ELSE @]
                      /\ midPayload' = [midPayload EXCEPT ![c] =
                                     @ \/ (~p.stop /\ Len(p.buffer) > Len(DataPrefix)
                                              /\ startsWith(p.buffer, DataPrefix))]
                      /\ IF p.stop THEN DoneReturn(c)
                         ELSE /\ pc' = [pc EXCEPT ![c] = "read"]
                              /\ UNCHANGED <<currentStreamController, errors, exitHandle>>
                      /\ UNCHANGED faults
  /\ UNCHANGED <<env, kind, hasOnRetry, throwsAt, aborted, body, postOutcome>>
  /\ UNCHANGED retryVars
  /\ UNCHANGED bkVars
  /\ UNCHANGED pageVars

(* ------------------------------------------------------------------ *)
(* A direct evaluation of calculateBackoff(attempt)                    *)
(* ------------------------------------------------------------------ *)
Backoff ==
  /\ bkAttempt > 0
  /\ bkDelay = -1
  /\ bkDelay' = calculateBackoff(bkAttempt, bkDraw)
  /\ UNCHANGED <<env, faults, kind, hasOnRetry, throwsAt, pc, currentStreamController,
                 aborted, bkAttempt, bkDraw, bkMessage, fdEnv, fdLog>>
  /\ UNCHANGED retryVars
  /\ UNCHANGED streamVars
  /\ UNCHANGED pageVars

(* ------------------------------------------------------------------ *)
(* A direct evaluation of the two statements that precede an onRetry   *)
(* call: the delay and the message for the attempt                     *)
(* ------------------------------------------------------------------ *)
Notify ==
  /\ bkAttempt > 0
  /\ bkMessage = -1
  /\ bkDelay' = calculateBackoff(bkAttempt, bkDraw)
  /\ bkMessage' = MessageIndex(bkAttempt)
  /\ UNCHANGED <<env, faults, kind, hasOnRetry, throwsAt, pc, currentStreamController,
                 aborted, bkAttempt, bkDraw, fdEnv, fdLog>>
  /\ UNCHANGED retryVars
  /\ UNCHANGED streamVars
  /\ UNCHANGED pageVars

(* ------------------------------------------------------------------ *)
(* formatDate(dateString) of utils.js.  Instants are hours, counted    *)
(* from 2025-01-26T00:00Z; a formatted date is the local day number.   *)
(* ------------------------------------------------------------------ *)
\* the arguments: nothing, a quarter, a range, a date, a date with a time in
\* the evening
EmptyString == ""
QuarterString == "Q4 2025"
RangeString == "2025-01-26 to 2025-02-01"
DateOnlyString == "2025-01-26"
EveningString == "2025-01-26T20:00:00Z"
DateStrings == {EmptyString, QuarterString, RangeString, DateOnlyString, EveningString}

\* a Date: valid with its instant, or invalid (getTime() is NaN)
Instant(t) == [valid |-> TRUE, t |-> t]
InvalidDate == [valid |-> FALSE, t |-> 0]

\* what formatDate returns: a string passed through, or a formatted day
Text(str) == [kind |-> "text", text |-> str, day |-> 0]
Day(n) == [kind |-> "day", text |-> "", day |-> n]

\* new Date(dateString).  An ISO date is an instant of UTC.  What a
\* string that is not ISO gives is left to the engine: a strict parser gives
\* NaN; a lenient one reads the numbers it finds as a local date (here the
\* midnight that begins local day 65).
DateOf(dateString, runtime) ==
  CASE dateString = DateOnlyString -> Instant(0)
    [] dateString = EveningString -> Instant(20)
    [] dateString = QuarterString /\ runtime.lenient -> Instant((65 * 24) - runtime.offset)
    [] OTHER -> InvalidDate

\* new Intl.DateTimeFormat('en-US', {year, month, day}).format(date): the day
\* of the instant in the time zone of the runtime
FormatOf(date, runtime) == Day((date.t + runtime.offset) \div 24)

\* a variant with hidden state: a date object shared by the calls, which each
\* call advances by a day
formatDateShared(dateString, runtime) ==
  IF dateString = EmptyString THEN Text("")
  ELSE IF ~DateOf(dateString, runtime).valid THEN Text(dateString)
  ELSE Day(FormatOf(DateOf(dateString, runtime), runtime).day + Len(fdLog))

formatDate(dateString, runtime) ==
  IF dateString = EmptyString THEN Text("")
  ELSE IF ~DateOf(dateString, runtime).valid THEN Text(dateString)
  ELSE FormatOf(DateOf(dateString, runtime), runtime)

\* one call of formatDate
Format ==
  /\ Len(fdLog) < MaxFormats
  /\ \E d \in DateStrings :
       fdLog' = Append(fdLog, [in |-> d, out |-> formatDate(d, fdEnv)])
  /\ UNCHANGED <<env, faults, kind, hasOnRetry, throwsAt, pc, currentStreamController,
                 aborted, bkAttempt, bkDraw, bkDelay, bkMessage, fdEnv>>
  /\ UNCHANGED retryVars
  /\ UNCHANGED streamVars
  /\ UNCHANGED pageVars

(* ------------------------------------------------------------------ *)
(* The chat form: handleSubmit, processQuestion and sendQuestion       *)
(* ------------------------------------------------------------------ *)
\* what the question input may hold: nothing, white space, a question
InputTexts == {<<>>, <<" ">>, <<"q">>}

\* askQuestionStream has returned, or has thrown
HasReturned(c) ==
  kind[c] = "ask" /\ pc[c] \in {"done", "ended", "cancelled", "errored"}

\* a variant that ignores only the empty question
IgnoredWhenEmpty(question, processing) == question = <<>>

\* if (!question || isProcessing) return
SubmitIgnored(question, processing) == question = <<>> \/ processing

\* handleSubmit with value in the input.  An ignored submission leaves
\* everything as it is; otherwise the form is locked, the two bubbles are
\* added, the input is cleared and processQuestion runs up to the first
\* await inside askQuestionStream.
Submit(value) ==
  LET question == trim(value)
  IN IF SubmitIgnored(question, isProcessing)
     THEN /\ inputValue' = value
          /\ UNCHANGED <<isProcessing, inputDisabled, buttonDisabled, messages, finished>>
          /\ UNCHANGED <<env, faults, kind, hasOnRetry, throwsAt, pc,
                         currentStreamController, aborted>>
          /\ UNCHANGED retryVars
          /\ UNCHANGED streamVars
          /\ UNCHANGED bkVars
     ELSE /\ isProcessing' = TRUE
          /\ inputDisabled' = TRUE
          /\ buttonDisabled' = TRUE
          /\ messages' = messages + 2
          /\ inputValue' = <<>>
          /\ UNCHANGED finished
          /\ \E c \in Calls : askQuestionStream(c)

\* the user edits the question; a disabled input takes no typing
Type ==
  /\ ~inputDisabled
  /\ \E v \in InputTexts \ {inputValue} : inputValue' = v
  /\ UNCHANGED <<isProcessing, inputDisabled, buttonDisabled, messages, finished>>
  /\ UNCHANGED <<env, faults, kind, hasOnRetry, throwsAt, pc, currentStreamController,
                 aborted>>
  /\ UNCHANGED retryVars
  /\ UNCHANGED streamVars
  /\ UNCHANGED bkVars
  /\ UNCHANGED <<tabVars, modalVars>>

\* the submit event of the form: the button, or Enter in the input
HandleSubmit ==
  /\ Submit(inputValue)
  /\ UNCHANGED <<tabVars, modalVars>>

\* sendQuestion(question): the input is set and the submit event dispatched
SendQuestion ==
  /\ \E q \in InputTexts : Submit(q)
  /\ UNCHANGED <<tabVars, modalVars>>

\* how processQuestion ended: the terminal state of askQuestionStream, or
\* "thrown" when askQuestionStream rejected (its onError call threw)
ProcessOutcomes(c) == IF pc[c] = "errored" THEN {"errored", "thrown"} ELSE {pc[c]}

\* a variant whose form is unlocked at the end of the try block only
ProcessingAfterFailure(outcome) == outcome \in {"errored", "thrown"}

\* finally { isProcessing = false; ... }
ProcessingAfter(outcome) == FALSE

\* processQuestion resumes after await askQuestionStream(...): the catch
\* block on a rejection, then the finally block
ProcessQuestionFinally(c) ==
  /\ HasReturned(c)
  /\ finished[c] = "none"
  /\ \E o \in ProcessOutcomes(c) :
       /\ finished' = [finished EXCEPT ![c] = o]
       /\ isProcessing' = ProcessingAfter(o)
  /\ inputDisabled' = FALSE
  /\ buttonDisabled' = FALSE
  /\ UNCHANGED <<inputValue, messages>>
  /\ UNCHANGED <<env, faults, kind, hasOnRetry, throwsAt, pc, currentStreamController,
                 aborted>>
  /\ UNCHANGED retryVars
  /\ UNCHANGED streamVars
  /\ UNCHANGED bkVars
  /\ UNCHANGED <<tabVars, modalVars>>

(* ------------------------------------------------------------------ *)
(* The tabs: switchTab and the loaders of the trends and portfolio     *)
(* views                                                               *)
(* ------------------------------------------------------------------ *)
\* how the work inside a loader's try block ends
LoadOutcomes == {"ok", "failed"}

\* if (!loadedTabs.has(targetTab)) and the tab is one of the two with a loader
NeedsLoad(t, loaded) == t \in LazyTabs /\ t \notin loaded

\* a variant of the loaders that passes a failure of the load on
LoaderRethrows(outcome) == outcome = "ok"

\* loadTrendsView and loadPortfolioView: the failure of the import or of a
\* render call is caught by the loader, which shows the message and returns
LoaderReturns(outcome) == TRUE

\* switchTab(targetTab) up to its await: buttons and panels are updated and,
\* for a tab that is not in loadedTabs, its loader is called
SwitchTab(t) ==
  /\ switches < MaxSwitches
  /\ switches' = switches + 1
  /\ activeTab' = t
  /\ IF NeedsLoad(t, loadedTabs)
     THEN /\ loaderRuns' = [loaderRuns EXCEPT ![t] = @ + 1]
          /\ loading' = [loading EXCEPT ![t] = @ + 1]
     ELSE UNCHANGED <<loaderRuns, loading>>
  /\ UNCHANGED <<loadedTabs, loadsDone>>
  /\ UNCHANGED <<env, faults, kind, hasOnRetry, throwsAt, pc, currentStreamController,
                 aborted>>
  /\ UNCHANGED retryVars
  /\ UNCHANGED streamVars
  /\ UNCHANGED bkVars
  /\ UNCHANGED <<chatVars, modalVars>>

\* a loader call finishes and the switchTab that awaited it resumes with
\* loadedTabs.add(tab); a loader that threw would leave switchTab before it
LoadSettle(t) ==
  /\ loading[t] > 0
  /\ loading' = [loading EXCEPT ![t] = @ - 1]
  /\ \E o \in LoadOutcomes :
       /\ loadsDone' = [loadsDone EXCEPT ![t] = Append(@, o)]
       /\ loadedTabs' = IF LoaderReturns(o) THEN loadedTabs \cup {t} ELSE loadedTabs
  /\ UNCHANGED <<activeTab, loaderRuns, switches>>
  /\ UNCHANGED <<env, faults, kind, hasOnRetry, throwsAt, pc, currentStreamController,
                 aborted>>
  /\ UNCHANGED retryVars
  /\ UNCHANGED streamVars
  /\ UNCHANGED bkVars
  /\ UNCHANGED <<chatVars, modalVars>>

(* ------------------------------------------------------------------ *)
(* The detail modal: showEntityDetail of utils.js and                  *)
(* showCompanyDetail of portfolio.js write to the same three elements  *)
(* ------------------------------------------------------------------ *)
\* the entities and companies that can be asked for
Names == {"A", "B"}
DetailFns == {"entity", "company"}
\* what comes back: a document with found, one without, or a failure (a
\* rejected fetchWithRetry, a response that is not ok, a body that is not JSON)
ResponseKinds == {"found", "notFound", "failed"}

Request(fn, name) == [fn |-> fn, name |-> name, pending |-> TRUE]

\* the loading state both functions put up before their await
LoadingTitle(name) == [name |-> name, badge |-> FALSE]
LoadingContent(fn, name) == [fn |-> fn, name |-> name, shows |-> "loading"]

\* the title after the response: renderEntityProfile rewrites it with the
\* entity_name and the label badge of the profile, every other path leaves it
TitleAfter(req, r, title) ==
  IF req.fn = "entity" /\ r = "found"
  THEN [name |-> req.name, badge |-> TRUE]
  ELSE title

\* the content after the response: every path of both functions assigns
\* innerHTML of the content element
ContentAfter(req, r) ==
  [fn |-> req.fn, name |-> req.name,
   shows |-> IF r = "found" THEN (IF req.fn = "entity" THEN "profile" ELSE "intel") ELSE r]

\* showEntityDetail(entityName) and showCompanyDetail(slug, name) up to their
\* await: the modal is shown with the name and the spinner, the request is sent
ShowDetail(fn, name) ==
  /\ Len(requests) < MaxRequests
  /\ modalTitle' = LoadingTitle(name)
  /\ modalContent' = LoadingContent(fn, name)
  /\ requests' = Append(requests, Request(fn, name))
  /\ UNCHANGED <<env, faults, kind, hasOnRetry, throwsAt, pc, currentStreamController,
                 aborted>>
  /\ UNCHANGED retryVars
  /\ UNCHANGED streamVars
  /\ UNCHANGED bkVars
  /\ UNCHANGED <<chatVars, tabVars>>

\* the response of request i arrives and the call that awaited it writes
\* what it got into the modal
ResponseArrives(i) ==
  /\ i \in 1 .. Len(requests)
  /\ requests[i].pending
  /\ \E r \in ResponseKinds :
       /\ modalTitle' = TitleAfter(requests[i], r, modalTitle)
       /\ modalContent' = ContentAfter(requests[i], r)
  /\ requests' = [requests EXCEPT ![i].pending = FALSE]
  /\ UNCHANGED <<env, faults, kind, hasOnRetry, throwsAt, pc, currentStreamController,
                 aborted>>
  /\ UNCHANGED retryVars
  /\ UNCHANGED streamVars
  /\ UNCHANGED bkVars
  /\ UNCHANGED <<chatVars, tabVars>>

(* ------------------------------------------------------------------ *)
(* Specifications                                                      *)
(* ------------------------------------------------------------------ *)
ExtremeDraws == {0, RandomDen - 1}
NoCallbackFault == {"ok"}
NeverThrows == {{}}
\* an onEvent callback that never throws, or that throws on its first invocation
ThrowsFirst == {{}, {1}}

\* one call of fetchWithRetry, with or without onRetry, any outcome of every
\* attempt and of every onRetry call
InitRetry ==
  InitWith(Caller(0, 1, BOOLEAN, CallbackOutcomes, NeverThrows),
           Network(FetchOutcomes, ExtremeDraws, "plain", TRUE),
           maxAttempts)
NextRetry == \E c \in Calls : CallFetch(c) \/ FetchSettle(c) \/ SleepDone(c)
SpecRetry == InitRetry /\ [][NextRetry]_vars

\* interleaved calls of askQuestionStream
InitStream ==
  InitWith(Caller(MaxCalls, 0, {TRUE}, NoCallbackFault, NeverThrows),
           Network({Response(200), Failure("TypeError"), Failure("Error")}, {0},
                   "plain", TRUE),
           MaxFaults)
NextStream ==
  \E c \in Calls : Ask(c) \/ FetchSettle(c) \/ SleepDone(c) \/ PostSettle(c) \/ ReadSettle(c)
SpecStream == InitStream /\ [][NextStream]_vars

\* one call of askQuestionStream on a healthy server: every body, cut into
\* chunks in every way
InitParse ==
  InitWith(Caller(1, 0, {TRUE}, NoCallbackFault, ThrowsFirst),
           Network({Response(200)}, {0}, "all", FALSE),
           0)
NextParse == \E c \in Calls : Ask(c) \/ FetchSettle(c) \/ PostSettle(c) \/ ReadSettle(c)
SpecParse == InitParse /\ [][NextParse]_vars

\* one call of askQuestionStream, any outcome of every probe attempt, of every
\* onRetry call and of the streaming POST
InitAsk ==
  InitWith(Caller(1, 0, BOOLEAN, CallbackOutcomes, NeverThrows),
           Network(FetchOutcomes, {0}, "plain", TRUE),
           maxAttempts)
NextAsk ==
  \E c \in Calls : Ask(c) \/ FetchSettle(c) \/ SleepDone(c) \/ PostSettle(c) \/ ReadSettle(c)
SpecAsk == InitAsk /\ [][NextAsk]_vars

\* the startup health check and a question's health probe in flight at the
\* same time, each of them with failures enough to use all its attempts
InitTwoLoops ==
  InitWith(Caller(1, 1, {TRUE}, NoCallbackFault, NeverThrows),
           Network({Response(200), Response(503), Failure("TypeError")}, {0},
                   "plain", TRUE),
           2 * maxAttempts)
NextTwoLoops ==
  \E c \in Calls :
    CallFetch(c) \/ Ask(c) \/ FetchSettle(c) \/ SleepDone(c) \/ PostSettle(c) \/ ReadSettle(c)
SpecTwoLoops == InitTwoLoops /\ [][NextTwoLoops]_vars

\* calculateBackoff on every attempt number and every draw
InitBackoff ==
  /\ InitCalls(Caller(0, 0, {}, {}, {}), Network({}, {}, "plain", TRUE), 0)
  /\ bkAttempt \in 1 .. maxAttempts
  /\ bkDraw \in 0 .. (RandomDen - 1)
  /\ bkDelay = -1
  /\ bkMessage = -1
  /\ fdEnv = NoRuntime
SpecBackoff == InitBackoff /\ [][Backoff]_vars

\* the delay and the message on every attempt number up to MaxAttemptArg
InitNotify ==
  /\ InitCalls(Caller(0, 0, {}, {}, {}), Network({}, {}, "plain", TRUE), 0)
  /\ bkAttempt \in 1 .. MaxAttemptArg
  /\ bkDraw \in 0 .. (RandomDen - 1)
  /\ bkDelay = -1
  /\ bkMessage = -1
  /\ fdEnv = NoRuntime
SpecNotify == InitNotify /\ [][Notify]_vars

\* calls of formatDate in a runtime of some time zone (west of, at, or east of
\* UTC) and with a strict or a lenient date parser
ZoneOffsets == {-8, 0, 9}
InitFormat ==
  /\ InitCalls(Caller(0, 0, {}, {}, {}), Network({}, {}, "plain", TRUE), 0)
  /\ bkAttempt = 0
  /\ bkDraw = 0
  /\ bkDelay = -1
  /\ bkMessage = -1
  /\ fdEnv \in [offset : ZoneOffsets, lenient : BOOLEAN]
SpecFormat == InitFormat /\ [][Format]_vars

\* any mix of calls of the two exported functions
\* the chat form: the user types, submits and clicks suggestions while
\* questions are processed
InitChat ==
  InitWith(Caller(MaxCalls, 0, {TRUE}, NoCallbackFault, NeverThrows),
           Network({Response(200), Response(503), Failure("Error")}, {0}, "plain", TRUE),
           MaxFaults)
ChatSettles(c) ==
  FetchSettle(c) \/ SleepDone(c) \/ PostSettle(c) \/ ReadSettle(c)
NextChat ==
  \/ Type
  \/ HandleSubmit
  \/ SendQuestion
  \/ \E c \in Calls : ChatSettles(c)
  \/ \E c \in Calls : ProcessQuestionFinally(c)
SpecChat == InitChat /\ [][NextChat]_vars

\* the same with askQuestionStream settling: every pending fetch, sleep and
\* read settles in the end, and a continuation that is ready is run.
\* ReadSettle(c) is enabled exactly when pc[c] = "read" and a call takes
\* finitely many of its steps, so its weak fairness is written as the call
\* not staying at reader.read() for ever.
SpecChatFair ==
  /\ SpecChat
  /\ \A c \in Calls : WF_vars(FetchSettle(c) \/ SleepDone(c) \/ PostSettle(c))
  /\ \A c \in Calls : []<>(pc[c] # "read")
  /\ \A c \in Calls : WF_vars(ProcessQuestionFinally(c))

\* the tab bar: clicks on the three tabs while loads are in flight
InitTabs ==
  InitWith(Caller(0, 0, {}, {}, {}), Network({}, {}, "plain", TRUE), 0)
NextTabs ==
  \/ \E t \in Tabs : SwitchTab(t)
  \/ \E t \in LazyTabs : LoadSettle(t)
SpecTabs == InitTabs /\ [][NextTabs]_vars

\* the modal: entity pills and company cards are clicked while earlier
\* requests are unanswered
InitModal ==
  InitWith(Caller(0, 0, {}, {}, {}), Network({}, {}, "plain", TRUE), 0)
NextModal ==
  \/ \E fn \in DetailFns, name \in Names : ShowDetail(fn, name)
  \/ \E i \in 1 .. MaxRequests : ResponseArrives(i)
SpecModal == InitModal /\ [][NextModal]_vars

Init ==
  InitWith(Caller(MaxCalls, MaxCalls, {TRUE}, NoCallbackFault, NeverThrows),
           Network({Response(200), Failure("TypeError")}, {0},
                   "plain", TRUE),
           MaxFaults)
Next ==
  \E c \in Calls :
    CallFetch(c) \/ Ask(c) \/ FetchSettle(c) \/ SleepDone(c) \/ PostSettle(c) \/ ReadSettle(c)
Spec == Init /\ [][Next]_vars

(* ------------------------------------------------------------------ *)
(* What a call's log says                                              *)
(* ------------------------------------------------------------------ *)
IsRequest(e) == e.op = "request"
IsOutcome(e) == e.op = "response" \/ e.op = "failure"
IsOnRetry(e) == e.op = "onRetry"
IsSleep(e) == e.op = "sleep"

Requests(c) == Len(SelectSeq(log[c], IsRequest))
Outcomes(c) == SelectSeq(log[c], IsOutcome)
OnRetryCalls(c) == SelectSeq(log[c], IsOnRetry)

RetryableResponse(e) == e.op = "response" /\ e.status \in retryableStatuses
FinalResponse(e) == e.op = "response" /\ e.status \notin retryableStatuses
TransientFailure(e) == e.op = "failure" /\ e.name \in {"AbortError", "TypeError"}
FatalFailure(e) == e.op = "failure" /\ e.name \notin {"AbortError", "TypeError"}

\* fetchWithRetry has returned or thrown
Settled(c) == result[c].t # "pending"

\* the streaming POST has been issued and the call has not terminated
Streaming(c) == pc[c] \in {"post", "read"}

(* ------------------------------------------------------------------ *)
(* C1: at most one call is in the streaming phase with a cancellation  *)
(* token that has not been aborted: whenever a call has issued its     *)
(* streaming POST, every other call's stream has been cancelled or has *)
(* terminated.                                                         *)
(* ------------------------------------------------------------------ *)
C1_AtMostOneActiveStream ==
  \A a \in Calls, b \in Calls :
    (Streaming(a) /\ a \notin aborted /\ Streaming(b) /\ b \notin aborted) => a = b

(* ------------------------------------------------------------------ *)
(* C2: a call that had not terminated when a later call started never  *)
(* invokes its onEvent after that start, and the later call is not     *)
(* disturbed: the most recent call is never the one that is cancelled. *)
(* ------------------------------------------------------------------ *)
C2_SupersededCallIsSilent ==
  \A c \in Calls :
    /\ late[c] = 0
    /\ (kind[c] = "ask" /\ ~Superseded(c)) => pc[c] # "cancelled"

(* ------------------------------------------------------------------ *)
(* C3: when every attempt returned a retryable status, the call has    *)
(* issued exactly maxAttempts requests and has thrown the error that   *)
(* names the last status and the attempt count.                        *)
(* ------------------------------------------------------------------ *)
C3_ExactlyMaxAttempts ==
  \A c \in Calls :
    (/\ Settled(c)
     /\ \A i \in 1 .. Len(Outcomes(c)) : RetryableResponse(Outcomes(c)[i]))
    => /\ Requests(c) = maxAttempts
       /\ result[c] = StatusError(Outcomes(c)[Len(Outcomes(c))].status)

(* ------------------------------------------------------------------ *)
(* C4: retryable statuses on attempts 1..k-1 and a non-retryable       *)
(* response on attempt k: the call resolves with that response and     *)
(* onRetry has been invoked exactly k-1 times, for attempts 1, ..., k-1 *)
(* in this order.                                                      *)
(* ------------------------------------------------------------------ *)
C4_ResolvesAfterRetries ==
  \A c \in Calls :
    LET out == Outcomes(c)
        k == Len(out)
    IN (/\ hasOnRetry[c]
        /\ k >= 1
        /\ FinalResponse(out[k])
        /\ \A i \in 1 .. (k - 1) : RetryableResponse(out[i]))
       => /\ result[c] = Returned(out[k].status, k)
          /\ Len(OnRetryCalls(c)) = k - 1
          /\ \A i \in 1 .. Len(OnRetryCalls(c)) : OnRetryCalls(c)[i].n = i

(* ------------------------------------------------------------------ *)
(* C5: a response whose status is not retryable, or an error that is   *)
(* neither a timeout abort nor a network TypeError, ends the call at   *)
(* once with that response or error: nothing follows it in the log (no *)
(* request, no onRetry call, no sleep).                                *)
(* ------------------------------------------------------------------ *)
C5_NoRetryOfFinalOutcome ==
  \A c \in Calls : \A i \in 1 .. Len(log[c]) :
    LET e == log[c][i] IN
    /\ FinalResponse(e) =>
         /\ result[c] = Returned(e.status, e.n)
         /\ \A j \in (i + 1) .. Len(log[c]) : log[c][j] = PostEntry
    /\ FatalFailure(e) =>
         /\ result[c] = FetchError(e.name)
         /\ i = Len(log[c])

\* a call went through retries and then returned a non-retryable response
C5_Witness ==
  \E c \in Calls :
    /\ kind[c] = "fetch"
    /\ pc[c] = "resolved"
    /\ result[c] = Returned(404, 3)
    /\ Requests(c) = 3

(* ------------------------------------------------------------------ *)
(* C6: an attempt that fails by the timeout abort or a connection      *)
(* failure is retried when it is not the last one (the backoff sleep   *)
(* follows it); on attempt maxAttempts the call throws the error that  *)
(* names the attempt count, after exactly maxAttempts requests.        *)
(* ------------------------------------------------------------------ *)
C6_TransientFailureRetried ==
  \A c \in Calls : \A i \in 1 .. Len(log[c]) :
    LET e == log[c][i] IN
    TransientFailure(e) =>
      IF e.n = maxAttempts
      THEN result[c] = NetworkError /\ Requests(c) = maxAttempts
      ELSE \E j \in (i + 1) .. Len(log[c]) : IsSleep(log[c][j]) /\ log[c][j].n = e.n

(* ------------------------------------------------------------------ *)
(* C7: an exception of the onRetry callback does not abort the retry   *)
(* loop: fetchWithRetry never throws the callback's exception.         *)
(* ------------------------------------------------------------------ *)
C7_CallbackFailureSwallowed ==
  \A c \in Calls : result[c].src # "callback"

C9_RequestOnRetrySleepRequest ==
  \A c \in Calls :
    LET lg == log[c]
        w == IF hasOnRetry[c] THEN 4 ELSE 3
    IN /\ \A i \in 1 .. Len(lg) :
            (IsRequest(lg[i]) /\ lg[i].n > 1) =>
              /\ i > w
              /\ lg[i - w] = RequestEntry(lg[i].n - 1)
              /\ IsOutcome(lg[i - w + 1]) /\ lg[i - w + 1].n = lg[i].n - 1
              /\ IsSleep(lg[i - 1]) /\ lg[i - 1].n = lg[i].n - 1
              /\ hasOnRetry[c] => lg[i - 2] = OnRetryEntry(lg[i].n - 1, lg[i - 1].d)
       /\ \A i \in 1 .. Len(lg) :
            (IsOnRetry(lg[i]) \/ IsSleep(lg[i])) => lg[i].n < maxAttempts

(* ------------------------------------------------------------------ *)
(* C10: the onEvent calls do not depend on how the body is cut into    *)
(* chunks: whatever part of the body the reader has been handed, in    *)
(* whatever chunks, the onEvent calls made are those that the same     *)
(* text makes when it arrives as one chunk.                            *)
(* ------------------------------------------------------------------ *)
C10_ChunkingInvariant ==
  \A c \in Calls :
    pc[c] \in {"read", "done", "ended"} =>
      events[c] = OnChunk(<<>>, SubSeq(body[c], 1, pos[c]), <<>>, throwsAt[c]).events

\* a token record was cut inside its payload, and the body has been read to
\* its end with exactly one token event
C10_Witness ==
  \E c \in Calls :
    /\ pc[c] = "ended"
    /\ midPayload[c]
    /\ body[c] = TokenLine \o <<NL>>
    /\ events[c] = <<"token">>

(* ------------------------------------------------------------------ *)
(* The lines of a body, for the statements about records               *)
(* ------------------------------------------------------------------ *)
\* a 'data: ' line whose payload is not JSON
IsMalformed(line) == IsDataLine(line) /\ ~JSONparses(slice6(line))

\* the newline-terminated lines of a text
CompleteLines(text) == AfterPop(split(text))

RECURSIVE JoinLines(_)
JoinLines(lines) ==
  IF lines = <<>> THEN <<>> ELSE lines[1] \o <<NL>> \o JoinLines(Tail(lines))

IsWellFormedLine(line) == ~IsMalformed(line)

\* the text without its malformed records
WithoutMalformed(text) ==
  JoinLines(SelectSeq(CompleteLines(text), IsWellFormedLine)) \o Popped(split(text))

HasMalformed(text) ==
  \E i \in 1 .. Len(CompleteLines(text)) : IsMalformed(CompleteLines(text)[i])

\* the call has left askQuestionStream
Terminated(c) == pc[c] \in {"done", "ended", "cancelled", "errored"}

(* ------------------------------------------------------------------ *)
(* C11: a 'data: ' line whose payload is not valid JSON is skipped: a  *)
(* call whose body holds such lines ends as it would without them      *)
(* (done or end of stream), makes the onEvent calls that the body      *)
(* without these lines makes, and never calls onError.                 *)
(* ------------------------------------------------------------------ *)
C11_MalformedRecordSkipped ==
  \A c \in Calls :
    (Terminated(c) /\ HasMalformed(body[c])) =>
      /\ pc[c] \in {"done", "ended"}
      /\ errors[c] = <<>>
      /\ events[c] = OnChunk(<<>>, WithoutMalformed(body[c]), <<>>, throwsAt[c]).events

\* a malformed record followed by a done record: exactly one onEvent call
C11_Witness ==
  \E c \in Calls :
    /\ pc[c] = "done"
    /\ body[c] = BadLine \o <<NL>> \o DoneLine \o <<NL>>
    /\ events[c] = <<"done">>
    /\ errors[c] = <<>>

\* the well-formed data records of a text, as the types of their events, in
\* wire order
RECURSIVE RecordTypes(_)
RecordTypes(lines) ==
  IF lines = <<>> THEN <<>>
  ELSE IF IsDataLine(lines[1]) /\ JSONparses(slice6(lines[1]))
  THEN <<TypeOf(slice6(lines[1]))>> \o RecordTypes(Tail(lines))
  ELSE RecordTypes(Tail(lines))

\* the types up to and including the first done
UpToDone(types) ==
  IF \E i \in 1 .. Len(types) : types[i] = "done"
  THEN SubSeq(types, 1, CHOOSE i \in 1 .. Len(types) :
                          /\ types[i] = "done"
                          /\ \A j \in 1 .. (i - 1) : types[j] # "done")
  ELSE types

(* ------------------------------------------------------------------ *)
(* C12: within one call the sequence of onEvent calls is the sequence  *)
(* of the well-formed data records handed to the reader, in wire       *)
(* order, up to and including the first done record.                   *)
(* ------------------------------------------------------------------ *)
C12_EventsAreRecordsUpToDone ==
  \A c \in Calls :
    pc[c] \in {"read", "done", "ended"} =>
      events[c] = UpToDone(RecordTypes(CompleteLines(SubSeq(body[c], 1, pos[c]))))

(* ------------------------------------------------------------------ *)
(* C13: once a done record has been parsed the reader stops: the done  *)
(* event is the last onEvent call of the call, and the call has        *)
(* returned with the handle no longer holding its token.               *)
(* ------------------------------------------------------------------ *)
C13_DoneStopsTheReader ==
  \A c \in Calls : \A i \in 1 .. Len(events[c]) :
    events[c][i] = "done" =>
      /\ i = Len(events[c])
      /\ pc[c] = "done"
      /\ currentStreamController # c

\* the body holds a well-formed done record
HasDoneRecord(text) ==
  LET types == RecordTypes(CompleteLines(text))
  IN \E i \in 1 .. Len(types) : types[i] = "done"

(* ------------------------------------------------------------------ *)
(* C14: when the response body ends and no done record has arrived,    *)
(* the call ends normally: it returns at the end of the stream, having *)
(* read the whole body, and onError is not invoked.                    *)
(* ------------------------------------------------------------------ *)
C14_EndWithoutDoneIsNormal ==
  \A c \in Calls :
    (Terminated(c) /\ postOutcome[c] = Response(200) /\ ~HasDoneRecord(body[c])) =>
      /\ pc[c] = "ended"
      /\ pos[c] = Len(body[c])
      /\ errors[c] = <<>>

\* a body of one token record and no done record has been read to its end
C14_Witness ==
  \E c \in Calls :
    /\ pc[c] = "ended"
    /\ body[c] = TokenLine \o <<NL>>
    /\ pos[c] = Len(body[c])
    /\ events[c] = <<"token">>
    /\ errors[c] = <<>>
    /\ exitHandle[c] = 0

(* ------------------------------------------------------------------ *)
(* C15: a call whose cancellation token has been aborted by a newer    *)
(* call, while it awaited the POST response or read the body, stops    *)
(* as cancelled: it never ends in the error state and its onError is   *)
(* never invoked.                                                      *)
(* ------------------------------------------------------------------ *)
C15_CancelledCallIsNotAnError ==
  \A c \in aborted :
    /\ errors[c] = <<>>
    /\ pc[c] \in {"post", "read", "cancelled"}
    /\ Superseded(c)

\* a call was reading the body when a newer call aborted it, and has stopped
C15_Witness ==
  \E c \in aborted :
    /\ pc[c] = "cancelled"
    /\ postOutcome[c] = Response(200)
    /\ events[c] = <<"token">>
    /\ errors[c] = <<>>

\* the call has been made and has not returned
InFlight(c) == kind[c] = "ask" /\ ~Terminated(c)

\* fetchWithRetry threw in the health probe of the call
ProbeFailed(c) == kind[c] = "ask" /\ result[c].t = "error"

C17_StreamFailureReportedOnce ==
  \A c \in Calls :
    /\ pc[c] = "errored" =>
          /\ Len(errors[c]) = 1
          /\ ~IsAbortError(errors[c][1].error)
          /\ errors[c][1].seen = Len(events[c])
    /\ pc[c] # "errored" => errors[c] = <<>>
    /\ (postOutcome[c].t = "failure" /\ ~IsAbortError(postOutcome[c])) =>
          /\ pc[c] = "errored"
          /\ errors[c][1].error = FetchError(postOutcome[c].name)
    /\ (pc[c] = "errored" /\ postOutcome[c] = Response(200)) =>
          errors[c][1].error = FetchError("TypeError")

\* the connection dropped after one token event had been delivered
C17_Witness ==
  \E c \in Calls :
    /\ pc[c] = "errored"
    /\ postOutcome[c] = Response(200)
    /\ events[c] = <<"token">>
    /\ errors[c] = <<[error |-> FetchError("TypeError"), seen |-> 1]>>

\* the streaming POSTs the call has issued
IsPost(e) == e = PostEntry
Posts(c) == Len(SelectSeq(log[c], IsPost))

(* ------------------------------------------------------------------ *)
(* C18: when the streaming POST returns a status outside 200..299 the  *)
(* call invokes onError once, with the error that names the status,    *)
(* never invokes onEvent, and has issued one POST only: the stream     *)
(* request is not retried, whatever the status.                        *)
(* ------------------------------------------------------------------ *)
C18_FailedPostIsNotRetried ==
  \A c \in Calls :
    (/\ postOutcome[c].t = "response"
     /\ ~(postOutcome[c].status >= 200 /\ postOutcome[c].status <= 299))
    => /\ pc[c] = "errored"
       /\ errors[c] = <<[error |-> StreamError(postOutcome[c].status), seen |-> 0]>>
       /\ events[c] = <<>>
       /\ Posts(c) = 1

\* the POST was answered with a status that the health probe would retry
C18_Witness ==
  \E c \in Calls :
    /\ postOutcome[c] = Response(503)
    /\ pc[c] = "errored"
    /\ Len(errors[c]) = 1
    /\ Posts(c) = 1

\* fetchWithRetry threw because the attempts were exhausted, or because fetch()
\* threw an error that is not retried
ExhaustedOrFatal(c) ==
  \/ result[c] = NetworkError
  \/ \E st \in retryableStatuses : result[c] = StatusError(st)
  \/ result[c] = FetchError("Error")

(* ------------------------------------------------------------------ *)
(* C19: when the health probe of askQuestionStream fails, by           *)
(* exhausting its attempts or by an error that is not retried, the     *)
(* call reports that error through onError (once), issues no           *)
(* streaming POST, creates no cancellation token and never invokes     *)
(* onEvent.                                                            *)
(* ------------------------------------------------------------------ *)
C19_FailedProbeIsReported ==
  \A c \in Calls :
    (ProbeFailed(c) /\ ExhaustedOrFatal(c)) =>
      /\ pc[c] = "errored"
      /\ errors[c] = <<[error |-> result[c], seen |-> 0]>>
      /\ Posts(c) = 0
      /\ postOutcome[c] = NoOutcome
      /\ currentStreamController # c
      /\ c \notin aborted
      /\ events[c] = <<>>

\* the probe used all its attempts on a retryable status
C19_Witness ==
  \E c \in Calls :
    /\ kind[c] = "ask"
    /\ result[c] = StatusError(503)
    /\ Requests(c) = maxAttempts
    /\ pc[c] = "errored"
    /\ Len(errors[c]) = 1
    /\ Posts(c) = 0

\* the call is in the retry loop of its health probe
InProbe(c) == kind[c] = "ask" /\ pc[c] \in {"fetch", "sleep"}

\* what fetch() settled with, from the log entry of the outcome
OutcomeOf(e) == [t |-> e.op, name |-> e.name, status |-> e.status]

\* the log of a lone fetchWithRetry call whose attempts n, n+1, ... settled with
\* outs, whose onRetry callback returns and whose draws are 0; asleep: the
\* call is in the sleep after the last of these outcomes
RECURSIVE LoneLog(_, _, _, _)
LoneLog(supplied, outs, n, asleep) ==
  IF outs = <<>> THEN <<RequestEntry(n)>>
  ELSE LET st == TryBlock(supplied, n, OutcomeOf(outs[1]), 0, "ok", 0, "ok")
       IN <<RequestEntry(n), outs[1]>> \o st.entries
            \o (IF st.next # "sleep" \/ (Len(outs) = 1 /\ asleep) THEN <<>>
                ELSE LoneLog(supplied, Tail(outs), n + 1, asleep))

(* ------------------------------------------------------------------ *)
(* C20: a later askQuestionStream call does not affect an earlier call *)
(* that is still in its health-probe retry loop: the earlier call owns *)
(* no token that could be aborted, and its requests, onRetry calls and *)
(* sleeps are those of a lone call with the same fetch outcomes.       *)
(* ------------------------------------------------------------------ *)
C20_ProbeUndisturbedByLaterCall ==
  \A c \in Calls :
    InProbe(c) =>
      /\ c \notin aborted
      /\ currentStreamController # c
      /\ log[c] = LoneLog(hasOnRetry[c], Outcomes(c), 1, pc[c] = "sleep")

\* the earlier call is on the second attempt of its probe while the call
\* made after it has already issued its streaming POST
C20_Witness ==
  \E c \in Calls, b \in Calls :
    /\ b > c
    /\ InProbe(c)
    /\ pc[c] = "fetch"
    /\ Requests(c) = 2
    /\ Len(OnRetryCalls(c)) = 1
    /\ pc[b] = "post"

\* attempts 1..k-1 of the probe failed transiently (a retryable status, a
\* timeout abort or a connection failure) and attempt k returned a response
\* that is not retried
RecoveredProbe(c) ==
  LET out == Outcomes(c)
      k == Len(out)
  IN /\ kind[c] = "ask"
     /\ k >= 1
     /\ FinalResponse(out[k])
     /\ \A i \in 1 .. (k - 1) : RetryableResponse(out[i]) \/ TransientFailure(out[i])

(* ------------------------------------------------------------------ *)
(* C21: when the health probe fails transiently on attempts 1..k-1 and *)
(* succeeds on attempt k, the caller observes the failures only as     *)
(* k-1 onRetry calls (when it supplied the callback), the streaming    *)
(* POST is issued, and onError is invoked for nothing that happened    *)
(* before the POST.                                                    *)
(* ------------------------------------------------------------------ *)
C21_TransientProbeFailuresInvisible ==
  \A c \in Calls :
    RecoveredProbe(c) =>
      /\ Len(OnRetryCalls(c)) = IF hasOnRetry[c] THEN Len(Outcomes(c)) - 1 ELSE 0
      /\ Posts(c) = 1
      /\ \A i \in 1 .. Len(errors[c]) : errors[c][i].error.src \notin {"status", "network", "callback"}
      /\ errors[c] # <<>> => postOutcome[c] # NoOutcome

\* the step is the call of askQuestionStream numbered c
Starts(c) == kind[c] = "none" /\ kind'[c] = "ask"

\* the step issues the streaming POST of call c
IssuesPost(c) == log'[c] # log[c] /\ log'[c][Len(log'[c])] = PostEntry

(* ------------------------------------------------------------------ *)
(* C22: in every call of askQuestionStream the steps occur in this     *)
(* order.  The call first aborts the stored token, if any, clears the  *)
(* handle and starts the health probe.  The POST is issued in the step *)
(* in which the probe returns, never before, once only, and in that    *)
(* step the call's fresh (not aborted) token is in the handle.  As     *)
(* long as the probe has not returned the call has no token.           *)
(* ------------------------------------------------------------------ *)
C22_StepOrder ==
  [][\A c \in Calls :
       /\ Starts(c) =>
            /\ currentStreamController # 0 => currentStreamController \in aborted'
            /\ currentStreamController' = 0
            /\ log'[c] = <<RequestEntry(1)>>
            /\ pc'[c] = "fetch"
       /\ IssuesPost(c) =>
            /\ pc[c] = "fetch"
            /\ Posts(c) = 0
            /\ result[c].t = "pending"
            /\ result'[c].t = "response"
            /\ currentStreamController' = c
            /\ c \notin aborted'
            /\ pc'[c] = "post"
       /\ result'[c].t # "response" =>
            /\ currentStreamController' # c
            /\ c \notin aborted'
            /\ postOutcome'[c] = NoOutcome
     ]_vars

\* the second call aborted the token of the first, retried its probe, and has
\* issued its POST with its own token in the handle
C22_Witness ==
  \E a \in Calls, c \in Calls :
    /\ a < c
    /\ a \in aborted
    /\ pc[c] = "post"
    /\ Requests(c) = 2
    /\ currentStreamController = c
    /\ c \notin aborted

(* ------------------------------------------------------------------ *)
(* C23: the statement after the retry loop, which throws 'Max retry    *)
(* attempts exceeded', is never reached: no call of fetchWithRetry     *)
(* throws that error, and a call is never asleep after attempt         *)
(* maxAttempts (on that attempt it has returned or thrown inside the   *)
(* loop).                                                              *)
(* ------------------------------------------------------------------ *)
C23_AfterLoopUnreachable ==
  \A c \in Calls :
    /\ result[c] # MaxAttemptsError
    /\ pc[c] = "sleep" => attempt[c] < maxAttempts
    /\ attempt[c] <= maxAttempts

\* attempt maxAttempts failed and the call threw from inside the loop
C23_Witness ==
  \E c \in Calls :
    /\ attempt[c] = maxAttempts
    /\ Len(Outcomes(c)) = maxAttempts
    /\ result[c] \in {NetworkError, StatusError(503)}
    /\ pc[c] = "rejected"

\* the call's outcomes are of both transient kinds: retryable statuses, and
\* timeouts or connection failures
MixedFailures(c) ==
  /\ \E i \in 1 .. Len(Outcomes(c)) : RetryableResponse(Outcomes(c)[i])
  /\ \E i \in 1 .. Len(Outcomes(c)) : TransientFailure(Outcomes(c)[i])

(* ------------------------------------------------------------------ *)
(* C29: whatever the outcomes of its attempts, in whatever order, a    *)
(* call of fetchWithRetry issues at least 1 and at most maxAttempts    *)
(* requests; the requests are numbered 1, 2, ... by the one loop       *)
(* variable, whichever kind of failure led to the retry.               *)
(* ------------------------------------------------------------------ *)
C29_RequestsWithinMaxAttempts ==
  \A c \in Calls :
    kind[c] # "none" =>
      /\ Requests(c) >= 1
      /\ Requests(c) <= maxAttempts
      /\ Requests(c) = attempt[c]
      /\ \A i \in 1 .. Requests(c) : SelectSeq(log[c], IsRequest)[i] = RequestEntry(i)
      /\ Len(Outcomes(c)) <= Requests(c)

\* failures of both kinds used up the attempts of one call
C29_Witness ==
  \E c \in Calls :
    /\ MixedFailures(c)
    /\ Requests(c) = maxAttempts
    /\ Settled(c)
    /\ result[c].t = "error"

\* the call is in the loop of fetchWithRetry
InLoop(c) == pc[c] \in {"fetch", "sleep"}

\* the sleeps of the call
Sleeps(c) == SelectSeq(log[c], IsSleep)

(* ------------------------------------------------------------------ *)
(* C24: two fetchWithRetry calls in flight at the same time keep       *)
(* separate attempt counters.  The attempt number of each is the       *)
(* number of its own requests, one more than the number of its own     *)
(* failures that were retried; its i-th sleep is for its attempt i,    *)
(* with a delay that calculateBackoff gives for that attempt; and it   *)
(* issues at most maxAttempts requests.                                *)
(* ------------------------------------------------------------------ *)
C24_SeparateAttemptCounters ==
  \A c \in Calls :
    kind[c] # "none" =>
      /\ attempt[c] = Requests(c)
      /\ attempt[c] = Len(Sleeps(c)) + (IF pc[c] = "sleep" THEN 0 ELSE 1)
      /\ Requests(c) <= maxAttempts
      /\ \A i \in 1 .. Len(Sleeps(c)) :
           /\ Sleeps(c)[i].n = i
           /\ \E r \in env.network.draws : Sleeps(c)[i].d = calculateBackoff(i, r)

\* the startup check and the question's probe are both on their last attempt
C24_Witness ==
  \E a \in Calls, b \in Calls :
    /\ kind[a] = "fetch"
    /\ kind[b] = "ask"
    /\ InLoop(a)
    /\ InLoop(b)
    /\ Requests(a) = maxAttempts
    /\ Requests(b) = maxAttempts

\* the line begins with the six characters d, a, t, a, colon, space, and a
\* character other than a space follows them
HasExactPrefix(line) ==
  /\ Len(line) >= 6
  /\ line[1] = "d" /\ line[2] = "a" /\ line[3] = "t" /\ line[4] = "a"
  /\ line[5] = ":" /\ line[6] = " "
IsSignificant(line) ==
  HasExactPrefix(line) /\ \E i \in 7 .. Len(line) : line[i] # " "

\* the text without the lines that are not significant
OnlySignificant(text) ==
  JoinLines(SelectSeq(CompleteLines(text), IsSignificant)) \o Popped(split(text))

\* what the reader has been handed of the body
Consumed(c) == SubSeq(body[c], 1, pos[c])

(* ------------------------------------------------------------------ *)
(* C25: a line produces an event only if it starts with the exact      *)
(* 6-character prefix 'data: ' and the rest is not blank.  The onEvent *)
(* calls are no more than the significant lines handed to the reader,  *)
(* they are the calls that the same text makes without its other       *)
(* lines (blank lines, comments, 'event:' lines, 'data:' without the   *)
(* space, payloads of white space), and no line causes an error.       *)
(* ------------------------------------------------------------------ *)
C25_OnlyDataLinesProduceEvents ==
  \A c \in Calls :
    pc[c] \in {"read", "done", "ended"} =>
      /\ Len(events[c]) <= Len(SelectSeq(CompleteLines(Consumed(c)), IsSignificant))
      /\ events[c] = OnChunk(<<>>, OnlySignificant(Consumed(c)), <<>>, throwsAt[c]).events
      /\ errors[c] = <<>>

\* a body of an 'event:' line and a 'data:' line without the space has been
\* read to its end
C25_Witness ==
  \E c \in Calls :
    /\ pc[c] = "ended"
    /\ body[c] = EventLine \o <<NL>> \o NoSpaceLine \o <<NL>>
    /\ events[c] = <<>>
    /\ errors[c] = <<>>

(* ------------------------------------------------------------------ *)
(* C26: the message passed to onRetry on attempt n is the entry at     *)
(* index min(n-1, length-1) of the message list: entry n-1 while n is  *)
(* within the list, the last entry for every attempt beyond it, and    *)
(* the index never decreases as the attempt number increases.          *)
(* ------------------------------------------------------------------ *)
C26_RetryMessageIndex ==
  /\ bkMessage # -1 =>
       /\ bkMessage \in 0 .. (retryMessagesLength - 1)
       /\ bkAttempt <= retryMessagesLength => bkMessage = bkAttempt - 1
       /\ bkAttempt > retryMessagesLength => bkMessage = retryMessagesLength - 1
  /\ \A n \in 1 .. (MaxAttemptArg - 1) : MessageIndex(n) <= MessageIndex(n + 1)

\* an attempt beyond the length of the list gets the last message
C26_Witness ==
  /\ bkAttempt > retryMessagesLength
  /\ bkMessage = retryMessagesLength - 1

C28_HandleHoldsTheLiveStream ==
  \A c \in Calls :
    (Streaming(c) /\ c \notin aborted) => currentStreamController = c

\* the text after the last newline of the body
Unterminated(text) == Popped(split(text))

(* ------------------------------------------------------------------ *)
(* C30: when the response body ends, the text after its last newline   *)
(* is still in the line buffer and has been neither parsed nor         *)
(* forwarded: the onEvent calls are those of the newline-terminated    *)
(* records alone, and no error is reported.                            *)
(* ------------------------------------------------------------------ *)
C30_UnterminatedRecordDropped ==
  \A c \in Calls :
    pc[c] = "ended" =>
      /\ buffer[c] = Unterminated(body[c])
      /\ Len(events[c]) = Len(RecordTypes(CompleteLines(body[c])))
      /\ \A i \in 1 .. Len(events[c]) : events[c][i] = RecordTypes(CompleteLines(body[c]))[i]
      /\ errors[c] = <<>>

\* the body ended with a done record that has no newline after it
C30_Witness ==
  \E c \in Calls :
    /\ pc[c] = "ended"
    /\ body[c] = TokenLine \o <<NL>> \o DoneLine
    /\ buffer[c] = DoneLine
    /\ events[c] = <<"token">>
    /\ errors[c] = <<>>

\* the onEvent callback of the call has thrown
HasThrown(c) == \E k \in throwsAt[c] : k <= Len(events[c])

ProbeReturnedError(c) ==
  kind[c] = "ask" /\ result[c].t = "response" /\ ~ResponseOk(result[c].status)

(* ------------------------------------------------------------------ *)
(* C32: the status of the health probe's response does not decide      *)
(* whether the stream is opened.  Whenever fetchWithRetry has returned *)
(* a response to askQuestionStream, of whatever status, the streaming  *)
(* POST has been issued exactly once, and as long as that POST has not *)
(* settled the call is waiting for it and onError has not been called. *)
(* ------------------------------------------------------------------ *)
C32_ProbeStatusNotInspected ==
  \A c \in Calls :
    (kind[c] = "ask" /\ result[c].t = "response") =>
      /\ Posts(c) = 1
      /\ postOutcome[c] = NoOutcome => (pc[c] = "post" /\ errors[c] = <<>>)

\* the probe was answered 404 and the call is reading the stream it opened
C32_Witness ==
  \E c \in Calls :
    /\ ProbeReturnedError(c)
    /\ result[c].status = 404
    /\ Posts(c) = 1
    /\ pc[c] = "read"
    /\ errors[c] = <<>>

\* the askQuestionStream calls that have been made and have not returned
Running == {c \in Calls : kind[c] = "ask" /\ ~HasReturned(c)}

(* ------------------------------------------------------------------ *)
(* C33: handleSubmit does nothing while isProcessing is true or the    *)
(* question is empty.  The bubbles in the chat are the two of each     *)
(* askQuestionStream call made, and of the calls started through the   *)
(* form (submit, Enter, suggestion buttons, sendQuestion) at most one  *)
(* has not returned, and none while the form is idle.                  *)
(* ------------------------------------------------------------------ *)
C33_FormCallsNeverOverlap ==
  /\ messages = 2 * NumberOf("ask")
  /\ Cardinality(Running) <= 1
  /\ ~isProcessing => Running = {}

\* the first question is being processed and a suggestion clicked meanwhile
\* has left its text in the locked input without starting a call
C33_Witness ==
  /\ isProcessing
  /\ inputDisabled
  /\ NumberOf("ask") = 1
  /\ Cardinality(Running) = 1
  /\ messages = 2
  /\ inputValue = <<"q">>

\* a new question can be submitted
CanSubmit == ~isProcessing /\ ~inputDisabled /\ ~buttonDisabled

(* ------------------------------------------------------------------ *)
(* C34: after every outcome of processQuestion isProcessing is false   *)
(* again and the input and the button are enabled.  The form is locked *)
(* exactly while a question is processed, every call whose             *)
(* processQuestion has ended and that no later question has followed   *)
(* leaves the form open, and, with askQuestionStream settling, a       *)
(* locked form is eventually open for a new question.                  *)
(* ------------------------------------------------------------------ *)
C34_FormReopens ==
  /\ [](inputDisabled = isProcessing /\ buttonDisabled = isProcessing)
  /\ [](\A c \in Calls : (finished[c] # "none" /\ ~Superseded(c)) => CanSubmit)
  /\ isProcessing ~> CanSubmit

\* a question ended in onError, another in an exception of askQuestionStream,
\* and the form is open
C34_Witness ==
  /\ CanSubmit
  /\ \E c \in Calls : finished[c] = "thrown"
  /\ \E c \in Calls : finished[c] \in {"ended", "done"}

(* ------------------------------------------------------------------ *)
(* C35: for each of the tabs trends and portfolio the loader runs at   *)
(* most once over any sequence of switchTab calls, a second switch     *)
(* made while the first load is awaiting included.                     *)
(* ------------------------------------------------------------------ *)
C35_LoaderRunsAtMostOnce ==
  \A t \in LazyTabs : loaderRuns[t] <= 1

(* ------------------------------------------------------------------ *)
(* C36: once the first load of a tab has finished the tab is in        *)
(* loadedTabs, whether the load succeeded or failed, and from then on  *)
(* no step calls the tab's loader.                                     *)
(* ------------------------------------------------------------------ *)
C36_FinishedLoadIsRecorded ==
  /\ [](\A t \in LazyTabs : loadsDone[t] # <<>> => t \in loadedTabs)
  /\ [][\A t \in LazyTabs : loadsDone[t] # <<>> => loaderRuns'[t] = loaderRuns[t]]_vars

\* the load of the trends tab failed, the tab is recorded and a later switch
\* back to it has not called the loader again
C36_Witness ==
  /\ loadsDone["trends"] = <<"failed">>
  /\ "trends" \in loadedTabs
  /\ loaderRuns["trends"] = 1
  /\ activeTab = "trends"
  /\ switches = 3

\* every response has arrived
AllArrived == \A i \in 1 .. Len(requests) : ~requests[i].pending
LastRequest == requests[Len(requests)]

(* ------------------------------------------------------------------ *)
(* C37: after any sequence of showEntityDetail and showCompanyDetail   *)
(* calls, once all responses have arrived the modal shows the title    *)
(* and the content of the entity or company requested last.            *)
(* ------------------------------------------------------------------ *)
C37_ModalShowsLastRequested ==
  (requests # <<>> /\ AllArrived) =>
    /\ modalTitle.name = LastRequest.name
    /\ modalContent.name = LastRequest.name
    /\ modalContent.fn = LastRequest.fn

====
